---------------------------- MODULE Spec2Model ----------------------------
(***************************************************************************)
(* Model of the AppSync / React Query hooks of sevacloud/React:            *)
(*   - useGraphQLQuery (fetcher) and useDynamoQuery (getData): one-shot    *)
(*     query executors that validate the GraphQL response envelope;        *)
(*   - useGraphQLInfiniteQuery in its three variants (the basic one, and   *)
(*     the first and second variant of Hooks/useGraphQLInfiniteQuery.ts):  *)
(*     queryFn, getNextPageParam, the auto-fetch effect and the flattened  *)
(*     items list, driven by useInfiniteQuery;                             *)
(*   - useInfiniteQueryExample, the caller that configures the second      *)
(*     variant with a refetch interval.                                    *)
(*                                                                         *)
(* JavaScript values are records tagged by k: undefined, null, string,     *)
(* array and object (an object is a function from its keys to values).     *)
(***************************************************************************)
EXTENDS Integers, Sequences, FiniteSets, TLC

\* ------------------------------------------------------------------ bounds
\* The most requests one walk issues before the model stops issuing more.
MaxRequests == 4
\* How many round trips go wrong in one behaviour.
MaxFaults == 1

\* --------------------------------------------------------- JavaScript values
Undefined == [k |-> "undefined"]
Null == [k |-> "null"]
Str(s) == [k |-> "string", s |-> s]
Arr(a) == [k |-> "array", a |-> a]
Obj(f) == [k |-> "object", o |-> f]
EmptyFn == [z \in {} |-> Undefined]

\* v == null || v === undefined: what ?. and ?? test.
Nullish(v) == v.k \in {"undefined", "null"}

\* (mutant) the empty object counts as no token.
Truthy_emptyObject(v) ==
    CASE v.k \in {"undefined", "null"} -> FALSE
      [] v.k = "string" -> v.s # ""
      [] v.k = "object" -> DOMAIN v.o # {}
      [] OTHER -> TRUE

\* ToBoolean(v): undefined, null and "" are falsy; arrays and objects are truthy.
Truthy(v) ==
    CASE v.k \in {"undefined", "null"} -> FALSE
      [] v.k = "string" -> v.s # ""
      [] OTHER -> TRUE

\* obj[key] on an object: a missing key reads as undefined.
Get(v, key) == IF key \in DOMAIN v.o THEN v.o[key] ELSE Undefined

\* v?.[key]
OptGet(v, key) ==
    IF Nullish(v) THEN Undefined
    ELSE IF v.k = "object" THEN Get(v, key) ELSE Undefined

\* { ...a, ...b }: later spreads win.
Spread(a, b) == b @@ a

\* JSON.stringify of the variables: a key whose value is undefined is dropped.
RECURSIVE Serialize(_)
Serialize(v) ==
    IF v.k # "object" THEN v
    ELSE LET keep == {key \in DOMAIN v.o : v.o[key].k # "undefined"}
         IN  Obj([key \in keep |-> Serialize(v.o[key])])

\* errors.map(e => e.message).join(', ')
RECURSIVE Join(_)
Join(msgs) ==
    IF Len(msgs) = 0 THEN ""
    ELSE IF Len(msgs) = 1 THEN msgs[1]
    ELSE msgs[1] \o ", " \o Join(Tail(msgs))

\* ------------------------------------------------------------ configuration
\* useInfiniteQueryExample's arguments.
query == "getInfiniteQueryExample"
queryString == "getInfiniteQueryExample"
operationName == "getInfiniteQueryExample"
itemsKey == "Items"
nextTokenKey == "NextToken"
queryInput == Obj([PrimaryKey |-> Str("PrimaryKeyValue")])

\* The three variants of useGraphQLInfiniteQuery, and the one-shot query hooks.
Variants == {"basic", "first", "second"}
QueryHooks == {"useGraphQLQuery", "useDynamoQuery"}
Hooks == Variants \cup QueryHooks

\* ------------------------------------------------- the transport's outcomes
\* What GraphQLAPI.graphql settles with: a GraphQLResult, or a rejection that is
\* an Error (isError) or a plain object carrying an error list.
Resolve(errs, data) ==
    [settle |-> "resolve", errors |-> errs, data |-> data,
     isError |-> FALSE, message |-> ""]
RejectError(msg) ==
    [settle |-> "reject", errors |-> <<>>, data |-> Undefined,
     isError |-> TRUE, message |-> msg]
RejectResult(errs) ==
    [settle |-> "reject", errors |-> errs, data |-> Undefined,
     isError |-> FALSE, message |-> ""]

\* What an executor ends with: a returned value, or a thrown error.
\* A thrown error is an Error with a message (isError), or the transport's
\* rejection passed through as it came.
Return(v) ==
    [ok |-> TRUE, value |-> v, message |-> "", isError |-> FALSE, errors |-> <<>>]
Throw(msg) ==
    [ok |-> FALSE, value |-> Undefined, message |-> msg, isError |-> TRUE,
     errors |-> <<>>]
Rethrow(out) ==
    [ok |-> FALSE, value |-> Undefined, message |-> out.message,
     isError |-> out.isError, errors |-> out.errors]

\* ------------------------------------------------------- one-shot executors
\* (mutant) the executor without its test for a null result.
fetcher_noNullTest(out) ==
    IF out.settle = "reject" THEN Rethrow(out)
    ELSE IF Len(out.errors) > 0 THEN Throw(Join(out.errors))
    ELSE IF ~Truthy(out.data) \/ operationName \notin DOMAIN out.data.o
         THEN Throw("No data for operation: " \o operationName)
    ELSE Return(out.data.o[operationName])

\* useGraphQLQuery's fetcher, after the transport settled with out.
fetcher(out) ==
    IF out.settle = "reject" THEN Rethrow(out)
    ELSE IF Len(out.errors) > 0 THEN Throw(Join(out.errors))
    ELSE IF ~Truthy(out.data) \/ operationName \notin DOMAIN out.data.o
         THEN Throw("No data for operation: " \o operationName)
    ELSE IF out.data.o[operationName] = Null
         THEN Throw("Null data for operation: " \o operationName)
    ELSE Return(out.data.o[operationName])

\* JSON.stringify of a rejection that is not an Error.
Stringify(e) == "{\"errors\":[" \o Join(e.errors) \o "]}"

\* The body of getData's try block.
getDataTry(out) ==
    IF out.settle = "reject" THEN Rethrow(out)
    ELSE IF Len(out.errors) > 0 THEN Throw(Join(out.errors))
    ELSE IF ~Truthy(out.data) \/ operationName \notin DOMAIN out.data.o
         THEN Throw("No data returned for operation: " \o operationName)
    ELSE IF out.data.o[operationName] = Null
         THEN Throw("Null data returned for operation: " \o operationName)
    ELSE Return(out.data.o[operationName])

\* useDynamoQuery's getData: the try block and its catch.
getData(out) ==
    LET r == getDataTry(out)
    IN  IF r.ok THEN r
        ELSE IF r.isError THEN Throw("GraphQL Query Error: " \o r.message)
        ELSE Throw("Unknown error occurred: " \o Stringify(r))

\* ------------------------------------------------ useGraphQLInfiniteQuery
\* (mutant) the token goes out as it came.
tokenValue_asIs(pageParam) == pageParam

\* Second variant: strips __typename from an object token.
tokenValue(pageParam) ==
    IF Truthy(pageParam) /\ pageParam.k = "object"
    THEN Obj([key \in DOMAIN pageParam.o \ {"__typename"} |-> pageParam.o[key]])
    ELSE pageParam

variablesSecond(pageParam) ==
    Obj([input |->
          Obj(Spread(queryInput.o,
                     IF Truthy(tokenValue(pageParam))
                     THEN nextTokenKey :> tokenValue(pageParam)
                     ELSE EmptyFn))])

\* First variant: { ...input, NextToken: pageParam }.
variablesFirst(pageParam) == Obj(Spread(queryInput.o, "NextToken" :> pageParam))

\* Basic variant: pageParam ? { input: { NextToken: pageParam } } : {}.
variablesBasic(pageParam) ==
    IF Truthy(pageParam)
    THEN Obj([input |-> Obj([NextToken |-> pageParam])])
    ELSE Obj(EmptyFn)

\* fetcher and getData: graphqlOperation(graphQLQuery, { input }).
variablesQuery == Obj([input |-> queryInput])

\* The variables a hook hands to graphqlOperation.
variables(h, pageParam) ==
    CASE h = "second" -> variablesSecond(pageParam)
      [] h = "first" -> variablesFirst(pageParam)
      [] h = "basic" -> variablesBasic(pageParam)
      [] OTHER -> variablesQuery

\* Second variant's queryFn, after the transport settled with out.
queryFnSecond(out) ==
    IF out.settle = "reject" THEN Rethrow(out)
    ELSE IF Len(out.errors) > 0 THEN Throw(Join(out.errors))
    ELSE IF ~Truthy(out.data) THEN Throw("Null data for operation: " \o query)
    ELSE Return(out.data)

\* First variant's queryFn: result itself is never null, so result.data is
\* returned whatever it is.
queryFnFirst(out) ==
    IF out.settle = "reject" THEN Rethrow(out)
    ELSE IF Len(out.errors) > 0 THEN Throw(Join(out.errors))
    ELSE Return(out.data)

\* err?.errors?.[0]?.message || err.message || 'Unknown GraphQL error'
catchMessage(e) ==
    IF Len(e.errors) > 0 /\ e.errors[1] # "" THEN e.errors[1]
    ELSE IF e.message # "" THEN e.message
    ELSE "Unknown GraphQL error"

\* Basic variant's queryFn: no look at result.errors; every throw is caught and
\* rethrown as an Error of catchMessage.
queryFnBasic(out) ==
    LET r == IF out.settle = "reject" THEN Rethrow(out)
             ELSE IF ~Truthy(out.data) THEN Throw("No data returned from API")
             ELSE Return(out.data)
    IN  IF r.ok THEN r ELSE Throw(catchMessage(r))

\* What a hook's executor makes of the transport's outcome.
queryFn(h, out) ==
    CASE h = "second" -> queryFnSecond(out)
      [] h = "first" -> queryFnFirst(out)
      [] h = "basic" -> queryFnBasic(out)
      [] h = "useGraphQLQuery" -> fetcher(out)
      [] OTHER -> getData(out)

\* getNextToken as useInfiniteQueryExample passes it,
\* (data) => data?.getInfiniteQueryExample.NextToken: undefined for a page that
\* is null or undefined; for a page without the operation's block (or with a
\* null one) reading NextToken throws a TypeError.
getNextTokenThrows(page) ==
    ~Nullish(page) /\ Nullish(OptGet(page, "getInfiniteQueryExample"))
getNextToken(page) ==
    IF Nullish(page) \/ getNextTokenThrows(page) THEN Undefined
    ELSE Get(Get(page, "getInfiniteQueryExample"), "NextToken")

\* (mutant) the token is taken from the first page of the sequence.
getNextPageParam_first(pp) == getNextToken(pp[1])

\* getNextPageParam: (lastPage) => getNextToken(lastPage)
getNextPageParam(pp) == getNextToken(pp[Len(pp)])

\* Computing hasNextPage calls getNextPageParam on the pages at hand: where that
\* throws, the render of the consumer throws.
renderThrows(pp) == Len(pp) > 0 /\ getNextTokenThrows(pp[Len(pp)])

\* infiniteQuery.hasNextPage: the next page param is neither undefined nor null.
hasNextPage(pp) ==
    Len(pp) > 0 /\ ~renderThrows(pp) /\ ~Nullish(getNextPageParam(pp))

\* What one page gives to flatMap; ok is FALSE where the callback throws a
\* TypeError (a property read on null or undefined).
pageItemsSecond(page) ==
    LET v == OptGet(OptGet(page, queryString), itemsKey)
    IN  [ok |-> TRUE, list |-> IF Nullish(v) THEN <<>> ELSE v.a]
pageItemsFirst(page) ==
    IF Nullish(page) THEN [ok |-> FALSE, list |-> <<>>]
    ELSE LET v == OptGet(Get(page, queryString), "Items")
         IN  [ok |-> TRUE, list |-> IF Nullish(v) THEN <<>> ELSE v.a]
pageItems(v, page) ==
    IF v = "first" THEN pageItemsFirst(page) ELSE pageItemsSecond(page)

\* items: data.pages.flatMap(...), in page order.
RECURSIVE items(_, _)
items(v, pp) ==
    IF Len(pp) = 0 THEN [ok |-> TRUE, list |-> <<>>]
    ELSE LET h == pageItems(v, pp[1])
             t == items(v, Tail(pp))
         IN  IF h.ok /\ t.ok THEN [ok |-> TRUE, list |-> h.list \o t.list]
             ELSE [ok |-> FALSE, list |-> <<>>]

\* ------------------------------------------------------------- the backend
\* A backend serves a finite chain of pages; each page has its Items and the
\* token of the page after it. The last page carries no token (null, or no
\* NextToken at all).
ChainScenario ==
    << [items |-> Arr(<<1, 2>>), tok |-> Str("t1")],
       [items |-> Arr(<<3>>), tok |-> Null] >>
ChainThree ==
    << [items |-> Arr(<<4>>), tok |-> Str("t1")],
       [items |-> Null, tok |-> Str("t2")],
       [items |-> Arr(<<5>>), tok |-> Undefined] >>
ChainObject ==
    << [items |-> Arr(<<6>>), tok |-> Obj([cursor |-> Str("abc"), __typename |-> Str("X")])],
       [items |-> Undefined, tok |-> Undefined] >>
ChainEmptyString ==
    << [items |-> Arr(<<7>>), tok |-> Str("")],
       [items |-> Arr(<<8>>), tok |-> Null] >>
ChainKeys ==
    << [items |-> Arr(<<9>>), tok |-> Obj([__typename |-> Str("X")])],
       [items |-> Arr(<<>>),
        tok |-> Obj([cursor |-> Str("abd"), scope |-> Str("s"),
                     __typename |-> Str("X")])],
       [items |-> Arr(<<10>>), tok |-> Null] >>
Chains ==
    << ChainScenario, ChainThree, ChainObject, ChainEmptyString, ChainKeys >>

\* The Items of a page at data version e: every refresh of the data changes them.
itemsAt(its, e) ==
    IF its.k = "array" THEN Arr([i \in 1..Len(its.a) |-> its.a[i] + 10 * e]) ELSE its

\* The response data of page i of chain c at data version e.
pageData(c, i, e) ==
    LET p == Chains[c][i]
        keys == (IF p.items.k = "undefined" THEN {} ELSE {"Items"})
                  \cup (IF p.tok.k = "undefined" THEN {} ELSE {"NextToken"})
        block == Obj([key \in keys |->
                        IF key = "Items" THEN itemsAt(p.items, e) ELSE p.tok])
    IN  Obj(queryString :> block)

\* The token a request carries, where the variant's query reads it.
requestToken(v, vars) ==
    IF v = "first" THEN OptGet(vars, "NextToken")
    ELSE OptGet(OptGet(vars, "input"), IF v = "second" THEN nextTokenKey ELSE "NextToken")

\* The page a request asks for: the first without a token, else the page after
\* the one that handed out the token; 0 for a token the schema does not accept
\* (an input carrying __typename, or an unknown token).
pageIndex(c, tok) ==
    IF Nullish(tok) THEN 1
    ELSE LET hits == {i \in 1..(Len(Chains[c]) - 1) :
                        tokenValue(Chains[c][i].tok) = tok}
         IN  IF hits = {} THEN 0 ELSE 1 + CHOOSE i \in hits : TRUE

\* The backend's answer to a request, when nothing fails.
goodOutcome(v, c, e, vars) ==
    LET i == pageIndex(c, requestToken(v, vars))
    IN  IF i = 0 THEN Resolve(<<"ValidationError">>, Null)
        ELSE Resolve(<<>>, pageData(c, i, e))

\* The ways a round trip goes wrong.
faultOutcomes(good) ==
    { Resolve(<<"e1", "e2">>, good.data),
      Resolve(<<"e1">>, Null),
      Resolve(<<>>, Null),
      Resolve(<<>>, Undefined),
      Resolve(<<>>, Obj(EmptyFn)),
      Resolve(<<>>, Obj(operationName :> Null)),
      RejectError("Network Error"),
      RejectResult(<<"e1", "e2">>) }

\* ---------------------------------------------------------------- the state
VARIABLES
    hook,             \* the hook the consumer calls
    refetchInterval,  \* options.refetchInterval is set (useInfiniteQueryExample)
    chain,            \* the backend's chain of pages
    epoch,            \* the version of the backend's data
    faults,           \* round trips that went wrong so far
    observing,        \* the consumer is mounted
    second,           \* a second consumer of the same query key is mounted too
    pages,            \* infiniteQuery.data.pages (empty: no data yet)
    pageReq,          \* for each page, the request that fetched it
    queryData,        \* a one-shot hook's data
    error,            \* the hook's error
    fetch,            \* the fetch in progress; isFetching is fetch.kind # "idle"
    reqs,             \* every request issued, in order, with what became of it
    lastOut           \* what the transport settled the last settled request with

vars == << hook, refetchInterval, chain, epoch, faults, observing, second,
           pages, pageReq, queryData, error, fetch, reqs, lastOut >>

\* What no action changes.
config == << hook, refetchInterval, chain >>

NoError == [k |-> "none", message |-> "", isError |-> FALSE, errors |-> <<>>]
ErrorOf(r) ==
    [k |-> "error", message |-> r.message, isError |-> r.isError, errors |-> r.errors]

NoOutcome ==
    [settle |-> "none", errors |-> <<>>, data |-> Undefined, isError |-> FALSE,
     message |-> ""]

Idle == [kind |-> "idle", req |-> 0, acc |-> <<>>, accReq |-> <<>>, target |-> 0]
isFetching == fetch.kind # "idle"

\* A request as the executor issues it: graphqlOperation(query, variables).
\* by: who started the fetch ("mount", "effect", "manual", "interval").
newRequest(by, pageNo, pageParam) ==
    [by |-> by, pageNo |-> pageNo, pageParam |-> pageParam,
     vars |-> Serialize(variables(hook, pageParam)),
     state |-> "pending"]

\* The first and the second variant end with the auto-fetch effect.
hasEffect(h) == h \in {"first", "second"}

\* (mutant) the effect runs in every render.
effectRuns_always(oldData, newData) == TRUE

\* The auto-fetch effect's dependency list, [infiniteQuery.data]: the effect runs
\* again in a render whose data differs from the render before (the query keeps
\* the old data object when a fetch brings the same data).
effectRuns(oldData, newData) == newData # oldData

\* (mutant) the test without hasNextPage.
effectFires_always(hasNext, fetching) == ~fetching

\* The auto-fetch effect's test.
effectFires(hasNext, fetching) == hasNext /\ ~fetching

Init ==
    /\ hook \in Hooks
    /\ refetchInterval = (hook = "second")
    /\ chain \in DOMAIN Chains
    /\ epoch = 0
    /\ faults = 0
    /\ observing = FALSE
    /\ second = FALSE
    /\ pages = <<>>
    /\ pageReq = <<>>
    /\ queryData = Undefined
    /\ error = NoError
    /\ fetch = Idle
    /\ reqs = <<>>
    /\ lastOut = NoOutcome

\* fetchNextPage(): a fetch of the page after the last one, its pageParam from
\* getNextPageParam; with no page yet it fetches the first page.
startNext(rq, by) ==
    /\ Len(rq) < MaxRequests
    /\ reqs' = Append(rq, newRequest(by, Len(pages') + 1,
                                     IF Len(pages') = 0 THEN Undefined
                                     ELSE getNextPageParam(pages')))
    /\ fetch' = [kind |-> "next", req |-> Len(rq) + 1, acc |-> <<>>,
                 accReq |-> <<>>, target |-> 0]

\* Two consumers' effects run after the same render, each with that render's
\* isFetching (false): both call fetchNextPage(). The second call finds the
\* first one's fetch in flight, cancels it and starts its own.
startNextBoth(rq) ==
    /\ Len(rq) + 1 < MaxRequests
    /\ LET r == newRequest("effect", Len(pages') + 1, getNextPageParam(pages'))
       IN  reqs' = rq \o << [r EXCEPT !.state = "cancelled"], r >>
    /\ fetch' = [kind |-> "next", req |-> Len(rq) + 2, acc |-> <<>>,
                 accReq |-> <<>>, target |-> 0]

\* The auto-fetch effect of every mounted consumer fires.
runEffects(rq) ==
    IF second THEN startNextBoth(rq) ELSE startNext(rq, "effect")

\* A refetch: every page fetched so far is fetched again from the first one, and
\* the result replaces the page sequence when the last of them arrived. (A
\* one-shot query is simply run again.)
startRefetch(rq, by) ==
    /\ Len(rq) < MaxRequests
    /\ reqs' = Append(rq, newRequest(by, 1, Undefined))
    /\ fetch' = [kind |-> "refetch", req |-> Len(rq) + 1, acc |-> <<>>,
                 accReq |-> <<>>,
                 target |-> IF Len(pages) = 0 THEN 1 ELSE Len(pages)]

\* (mutant) the page goes to the front.
appendPage_front(pp, page) == << page >> \o pp

\* The page of a next-page fetch goes to the end of the page sequence.
appendPage(pp, page) == Append(pp, page)

\* A fetch ends well with the page sequence np: the data is stored, and where the
\* data changed the auto-fetch effect runs in the render that shows it.
succeed(np, nr, rq) ==
    /\ pages' = np
    /\ pageReq' = nr
    /\ error' = NoError
    /\ UNCHANGED queryData
    /\ IF observing /\ hasEffect(hook) /\ effectRuns(pages, np)
          /\ effectFires(hasNextPage(np), FALSE)
       THEN runEffects(rq)
       ELSE reqs' = rq /\ fetch' = Idle

\* (mutant) the executor sends the failed request once more.
fail_retry(res, rq) ==
    /\ Len(rq) < MaxRequests
    /\ error' = ErrorOf(res)
    /\ UNCHANGED << pages, pageReq, queryData >>
    /\ reqs' = Append(rq, [rq[fetch.req] EXCEPT !.state = "pending"])
    /\ fetch' = [fetch EXCEPT !.req = Len(rq) + 1]

\* A fetch ends with a thrown error: the data stays, the error is stored, and the
\* render that shows the error has the data of the render before.
fail(res, rq) ==
    /\ error' = ErrorOf(res)
    /\ UNCHANGED << pages, pageReq, queryData >>
    /\ IF observing /\ hasEffect(hook) /\ effectRuns(pages, pages)
          /\ effectFires(hasNextPage(pages), FALSE)
       THEN runEffects(rq)
       ELSE reqs' = rq /\ fetch' = Idle

\* The consumer mounts for the first time: the hook fetches (the first page).
Mount ==
    /\ ~observing /\ reqs = <<>>
    /\ observing' = TRUE
    /\ reqs' = << newRequest("mount", 1, Undefined) >>
    /\ fetch' = [kind |-> "next", req |-> 1, acc |-> <<>>, accReq |-> <<>>,
                 target |-> 0]
    /\ UNCHANGED << config, epoch, faults, second, pages, pageReq, queryData,
                    error, lastOut >>

\* The transport settles request i with out. A refetch goes on with the page
\* after the one that arrived, as long as there were pages before; it fails where
\* getNextPageParam throws on the way.
settle(i, out) ==
    LET res == queryFn(hook, out)
        rq == [reqs EXCEPT ![i].state = IF res.ok THEN "done" ELSE "failed"]
    IN  /\ lastOut' = out
        /\ IF ~res.ok THEN fail(res, rq)
           ELSE IF hook \in QueryHooks
           THEN /\ queryData' = res.value
                /\ error' = NoError
                /\ fetch' = Idle
                /\ reqs' = rq
                /\ UNCHANGED << pages, pageReq >>
           ELSE IF fetch.kind = "refetch"
           THEN LET acc == Append(fetch.acc, res.value)
                    accReq == Append(fetch.accReq, i)
                IN  IF Len(acc) < fetch.target /\ renderThrows(acc)
                    THEN fail(Throw("TypeError: reading 'NextToken'"), rq)
                    ELSE IF Len(acc) < fetch.target /\ hasNextPage(acc)
                    THEN /\ Len(rq) < MaxRequests
                         /\ reqs' = Append(rq, newRequest(reqs[i].by, Len(acc) + 1,
                                                          getNextPageParam(acc)))
                         /\ fetch' = [fetch EXCEPT !.req = Len(rq) + 1,
                                                   !.acc = acc, !.accReq = accReq]
                         /\ UNCHANGED << pages, pageReq, queryData, error >>
                    ELSE succeed(acc, accReq, rq)
           ELSE succeed(appendPage(pages, res.value), Append(pageReq, i), rq)

\* The transport settles a request in flight with the backend's answer. A
\* consumer whose render throws on the new pages is unmounted.
Respond ==
    \E i \in DOMAIN reqs :
        /\ reqs[i].state = "pending"
        /\ settle(i, goodOutcome(hook, chain, epoch, reqs[i].vars))
        /\ observing' = (observing /\ ~renderThrows(pages'))
        /\ second' = (second /\ ~renderThrows(pages'))
        /\ UNCHANGED << config, epoch, faults >>

\* A round trip goes wrong.
Fault ==
    \E i \in DOMAIN reqs :
        /\ reqs[i].state = "pending"
        /\ faults < MaxFaults
        /\ faults' = faults + 1
        /\ \E out \in faultOutcomes(goodOutcome(hook, chain, epoch, reqs[i].vars)) :
              settle(i, out)
        /\ observing' = (observing /\ ~renderThrows(pages'))
        /\ second' = (second /\ ~renderThrows(pages'))
        /\ UNCHANGED << config, epoch >>

Deliver == Respond \/ Fault

\* A consumer unmounts. A fetch in flight goes on: the executors take no abort
\* signal.
Discard ==
    /\ observing
    /\ IF second THEN second' = FALSE /\ UNCHANGED observing
                 ELSE observing' = FALSE /\ UNCHANGED second
    /\ UNCHANGED << config, epoch, faults, pages, pageReq, queryData, error,
                    fetch, reqs, lastOut >>

\* A consumer mounts on the cached query. The hook refetches when the data is
\* stale (or there is none) and nothing is in flight; then the auto-fetch effect
\* runs for the first render. (No mount where that render throws.)
mountOnCache ==
    /\ ~renderThrows(pages)
    /\ UNCHANGED << pages, pageReq, queryData >>
    /\ \E stale \in BOOLEAN :
          IF ~isFetching /\ (stale \/ (Len(pages) = 0 /\ queryData = Undefined))
          THEN /\ startRefetch(reqs, "mount")
               /\ error' = IF Len(pages) = 0 /\ queryData = Undefined
                           THEN NoError ELSE error
          ELSE IF hasEffect(hook) /\ effectFires(hasNextPage(pages), isFetching)
          THEN /\ startNext(reqs, "effect")
               /\ UNCHANGED error
          ELSE UNCHANGED << reqs, fetch, error >>
    /\ UNCHANGED << config, epoch, faults, lastOut >>

\* The consumer mounts again after it had left.
Remount ==
    /\ ~observing /\ reqs # <<>>
    /\ observing' = TRUE
    /\ UNCHANGED second
    /\ mountOnCache

\* A second consumer calls the hook with the same query key while the first is
\* mounted: it observes the same query. (Modelled for the variants with the
\* auto-fetch effect, where a consumer more is an effect more.)
MountSecond ==
    /\ observing /\ ~second /\ hasEffect(hook)
    /\ second' = TRUE
    /\ UNCHANGED observing
    /\ mountOnCache

\* The consumer calls fetchNextPage() itself. With a fetch in flight and data
\* present, that fetch is cancelled (its result, when it comes, is ignored) and
\* a new one starts: fetchNextPage's cancelRefetch defaults to true.
ManualFetchNext ==
    /\ observing /\ hook \in Variants
    /\ \/ Len(pages) = 0 /\ ~isFetching
       \/ hasNextPage(pages)
    /\ UNCHANGED << pages, pageReq, queryData >>
    /\ LET rq == IF isFetching
                 THEN [reqs EXCEPT ![fetch.req].state = "cancelled"]
                 ELSE reqs
       IN  startNext(rq, "manual")
    /\ error' = IF Len(pages) = 0 THEN NoError ELSE error
    /\ UNCHANGED << config, epoch, faults, observing, second, lastOut >>

\* The refetch interval elapses. The timer restarts at every update of the query
\* and a refetch while a fetch is in flight joins that fetch, so it acts only on
\* an idle query.
IntervalRefetch ==
    /\ refetchInterval /\ observing /\ ~isFetching
    /\ UNCHANGED << pages, pageReq, queryData >>
    /\ startRefetch(reqs, "interval")
    /\ error' = IF Len(pages) = 0 THEN NoError ELSE error
    /\ UNCHANGED << config, epoch, faults, observing, second, lastOut >>

\* The data behind the query changes: the backend has two versions of it.
BackendRefresh ==
    /\ epoch' = 1 - epoch
    /\ UNCHANGED << config, faults, observing, second, pages, pageReq,
                    queryData, error, fetch, reqs, lastOut >>

Next ==
    \/ Mount
    \/ Deliver
    \/ Discard
    \/ Remount
    \/ MountSecond
    \/ ManualFetchNext
    \/ IntervalRefetch
    \/ BackendRefresh

Spec == Init /\ [][Next]_vars

\* The walk of a consumer that stays mounted, against a backend that never
\* fails: the hook fetches once mounted, and the transport answers every request.
InitWalk == Init /\ hasEffect(hook)
NextWalk == Mount \/ Respond \/ BackendRefresh
SpecWalk ==
    InitWalk /\ [][NextWalk]_vars /\ WF_vars(Mount) /\ WF_vars(Respond)

\* ------------------------------------------------------ what the consumer sees
hasMore == hasNextPage(pages)

\* The Continuation Controller's states.
Fetching == isFetching
Failed == ~isFetching /\ error # NoError
Exhausted == ~isFetching /\ error = NoError /\ Len(pages) > 0 /\ ~hasMore
Paginated == hook \in Variants

IsPrefix(a, b) == Len(a) <= Len(b) /\ \A i \in 1..Len(a) : a[i] = b[i]

\* A request was issued in this step; newReq is that request.
Issued == Len(reqs') > Len(reqs)
newReq == reqs'[Len(reqs')]

\* ------------------------------------------------------------------ claims

\* C1: pages are fetched strictly in sequence. The pages listed are in the order
\* their requests were issued, each by a completed request for that position;
\* and a request for page N+1 is issued only with N pages at hand, carrying as
\* pageParam the token of page N, which is present.
C1_PagesInIssueOrder ==
    Paginated =>
        /\ Len(pageReq) = Len(pages)
        /\ \A i \in 1..Len(pages) :
              /\ reqs[pageReq[i]].state = "done"
              /\ reqs[pageReq[i]].pageNo = i
              /\ \A j \in 1..Len(pages) : i < j => pageReq[i] < pageReq[j]
C1_NextAfterToken ==
    (Paginated /\ Issued /\ newReq.pageNo > 1) =>
        LET basis == IF fetch'.kind = "refetch" THEN fetch'.acc ELSE pages'
            made == IF fetch'.kind = "refetch" THEN fetch'.accReq ELSE pageReq'
        IN  /\ Len(basis) = newReq.pageNo - 1
            /\ newReq.pageParam = getNextToken(basis[Len(basis)])
            /\ ~Nullish(newReq.pageParam)
            /\ made[Len(made)] < Len(reqs')
            /\ reqs'[made[Len(made)]].state = "done"
C1_Sequential == [](C1_PagesInIssueOrder) /\ [][C1_NextAfterToken]_vars

\* C1's case: with two pages fetched, the request for the third is in flight.
C1_Witness ==
    /\ Paginated /\ Len(pages) = 2 /\ isFetching
    /\ reqs[fetch.req].pageNo = 3

\* C2: while a fetch is in flight, no trigger issues a further request. A request
\* is issued in a step from a state with a fetch in flight only as the
\* continuation of that fetch, whose own request the step completed; so every
\* request is issued with no other one outstanding, once per next page.
C2_NoRequestWhileInFlight ==
    [][(Paginated /\ isFetching /\ Issued) =>
           /\ reqs'[fetch.req].state = "done"
           /\ \A i \in DOMAIN reqs : reqs'[i].state = reqs[i].state
                                     \/ i = fetch.req]_vars

\* C3 (as stated): the fetch of a page fails; the pages fetched before stay as
\* they are, nothing is appended, the error is set and nothing is in flight; and
\* from Failed the only request ever issued is the one of a manual retry.
C3_FailureKeepsPages ==
    (Paginated /\ isFetching /\ reqs'[fetch.req].state = "failed") =>
        /\ pages' = pages /\ pageReq' = pageReq
        /\ error' # NoError /\ ~isFetching'
        /\ ~Issued
C3_OnlyManualRetry ==
    [][C3_FailureKeepsPages]_vars
    /\ [][(Paginated /\ Failed /\ Issued) => newReq.by = "manual"]_vars

\* C3 (amended): the failing step is as stated, and the auto-fetch effect of the
\* mounted consumer schedules nothing from Failed. Requests are issued again by a
\* manual fetchNextPage (for the page after the last one), or by a refetch from
\* the first page (the refetch interval, a mount on stale data), or by the effect
\* of a consumer that mounts anew.
C3_RequestFromFailed ==
    (Paginated /\ Failed /\ Issued) =>
        \/ newReq.by = "manual" /\ newReq.pageNo = Len(pages) + 1
        \/ newReq.by \in {"interval", "mount"} /\ newReq.pageNo = 1
                                                /\ fetch'.kind = "refetch"
        \/ newReq.by = "effect" /\ ((~observing /\ observing')
                                      \/ (~second /\ second'))
                                /\ newReq.pageNo = Len(pages) + 1
C3_FailureIsolation ==
    [][C3_FailureKeepsPages]_vars /\ [][C3_RequestFromFailed]_vars /\
    [][(Paginated /\ Failed) => pages' = pages]_vars

\* C3's case: page 2 of a walk failed with page 1 at hand and a token for more.
C3_Witness ==
    /\ Paginated /\ Failed /\ observing /\ Len(pages) = 1 /\ hasMore
    /\ reqs[Len(reqs)].state = "failed" /\ reqs[Len(reqs)].pageNo = 2

\* A fetch completes in this step and its page is taken in as the last page.
TookLastPage ==
    /\ isFetching /\ reqs'[fetch.req].state = "done"
    /\ Len(pageReq') > 0 /\ pageReq'[Len(pageReq')] = fetch.req

\* C5 (as stated): a page fetched with no token makes the walk Exhausted with
\* hasMore false, and Exhausted is terminal: no request is issued from it and the
\* page sequence stays as it is.
C5_EntersExhausted ==
    (Paginated /\ TookLastPage /\ ~renderThrows(pages')
       /\ Nullish(getNextToken(pages'[Len(pages')]))) =>
        Exhausted' /\ ~hasMore'
C5_RefetchOnly ==
    /\ (Issued /\ Paginated /\ Exhausted) =>
           /\ newReq.by \in {"interval", "mount"}
           /\ newReq.pageNo = 1 /\ fetch'.kind = "refetch"
    /\ (pages' # pages /\ Paginated) => ~Exhausted
    /\ (pages' # pages /\ Paginated /\ Len(pages) > 0 /\ ~hasMore) =>
           fetch.kind = "refetch"
C6_AppendOnly ==
    [][(Paginated /\ faults' = 0) => /\ IsPrefix(pages, pages')
                                     /\ Len(pages') <= Len(pages) + 1]_vars

\* C6 (amended): a step of a fetch for the next page leaves the page sequence or
\* adds one page at its end. A refetch (the refetch interval, a mount on stale
\* data) leaves the page sequence until its last page arrived and then replaces
\* it by the pages fetched again, in their order and no more of them than before.
C6_StepOfPages ==
    Paginated =>
        IF fetch.kind = "refetch"
        THEN \/ pages' = pages
             \/ /\ reqs'[fetch.req].state = "done"
                /\ IsPrefix(fetch.acc, pages')
                /\ Len(pages') = Len(fetch.acc) + 1
                /\ Len(pages') <= fetch.target
                /\ pageReq' = Append(fetch.accReq, fetch.req)
        ELSE /\ IsPrefix(pages, pages')
             /\ Len(pages') <= Len(pages) + 1
C6_AppendOrRefetch == [][C6_StepOfPages]_vars

\* C6's case: with the refetch interval configured, two pages were fetched and
\* then fetched again by a refetch that took the place of the first two.
C6_Witness ==
    /\ Paginated /\ refetchInterval /\ Len(pages) = 2
    /\ pageReq[1] > 2 /\ reqs[pageReq[1]].by = "interval"

\* The item array at the item path of a page; a path that is missing or null
\* gives the empty list.
itemPath(page) ==
    LET v == OptGet(OptGet(page, queryString), itemsKey)
    IN  IF Nullish(v) THEN <<>> ELSE v.a
RECURSIVE Concatenation(_)
Concatenation(pp) ==
    IF Len(pp) = 0 THEN <<>> ELSE itemPath(pp[1]) \o Concatenation(Tail(pp))

\* C7: for every page sequence the hook holds, items is the concatenation, in
\* page order, of the item arrays at the item path of the pages, a missing or
\* null path counting as empty; computing items never fails.
C7_ItemsAreConcatenation ==
    hasEffect(hook) =>
        /\ items(hook, pages).ok
        /\ items(hook, pages).list = Concatenation(pages)

\* A request settles in this step; lastOut' is what the transport settled it with.
Settled == isFetching /\ reqs'[fetch.req].state \in {"done", "failed"}

\* The variables of a request without the token.
withoutToken(v, rv) ==
    LET block == IF v = "first" THEN rv ELSE OptGet(rv, "input")
        key == IF v = "second" THEN nextTokenKey ELSE "NextToken"
    IN  IF Nullish(block) THEN Obj(EmptyFn)
        ELSE Obj([f \in DOMAIN block.o \ {key} |-> block.o[f]])

\* C8: every page request carries the caller's input unchanged; the request for
\* the first page carries no token, and the request for a later page carries
\* under the token field the token of the page before (its pageParam, C1), in
\* every variant.
C8_RequestCarriesInput ==
    Paginated =>
        \A i \in DOMAIN reqs :
            /\ withoutToken(hook, reqs[i].vars) = queryInput
            /\ reqs[i].pageNo = 1 => Nullish(requestToken(hook, reqs[i].vars))
            /\ reqs[i].pageNo > 1 =>
                   /\ ~Nullish(requestToken(hook, reqs[i].vars))
                   /\ tokenValue(requestToken(hook, reqs[i].vars))
                        = tokenValue(reqs[i].pageParam)

\* C9: a response with a non-empty error list makes the fetch fail, with or
\* without data, and the failure's message joins the messages of the list
\* (useDynamoQuery puts its prefix before them); in every hook and variant.
C9_ErrorListFails ==
    [][(Settled /\ lastOut'.settle = "resolve" /\ Len(lastOut'.errors) > 0) =>
           /\ reqs'[fetch.req].state = "failed"
           /\ pages' = pages /\ queryData' = queryData
           /\ error'.message \in
                 { Join(lastOut'.errors),
                   "GraphQL Query Error: " \o Join(lastOut'.errors) }]_vars

\* The messages that carry the operation name.
namesOperation(msg) ==
    \E prefix \in {"No data for operation: ", "No data returned for operation: ",
                   "Null data for operation: ",
                   "GraphQL Query Error: No data returned for operation: "} :
        msg = prefix \o operationName

\* C10: a response without errors whose data lacks the operation's key makes the
\* fetch fail with an error that carries the operation name; a walk's page
\* sequence stays as it was (empty, for the first page).
C10_MissingOperationFails ==
    [][(Settled /\ lastOut'.settle = "resolve" /\ Len(lastOut'.errors) = 0
          /\ lastOut'.data.k = "object"
          /\ operationName \notin DOMAIN lastOut'.data.o) =>
           /\ reqs'[fetch.req].state = "failed"
           /\ namesOperation(error'.message)
           /\ pages' = pages]_vars

\* C4: against a backend that serves a chain of n pages and never fails, the
\* walk of useInfiniteQueryExample's variant issues n requests, no more, and
\* without a manual trigger comes to Exhausted with the n pages of the chain,
\* items their items in order and hasMore false.
C4_Completed ==
    /\ Exhausted /\ ~hasMore
    /\ Len(reqs) = Len(Chains[chain])
    /\ Len(pages) = Len(Chains[chain])
    /\ \A i \in 1..Len(pages) : \E e \in {0, 1} : pages[i] = pageData(chain, i, e)
    /\ items(hook, pages).ok
    /\ items(hook, pages).list = Concatenation(pages)
    /\ \A i \in DOMAIN reqs : reqs[i].by \in {"mount", "effect"}
C4_WalkCompletes ==
    /\ [](hook = "second" => Len(reqs) <= Len(Chains[chain]))
    /\ <>(hook = "second" => C4_Completed)

\* C11: a response without errors and without data (null or undefined) makes
\* the page fetch fail and no page is appended, in every pagination variant.
C11_EmptyResponseFails ==
    [][(Paginated /\ Settled /\ lastOut'.settle = "resolve"
          /\ Len(lastOut'.errors) = 0 /\ Nullish(lastOut'.data)) =>
           /\ reqs'[fetch.req].state = "failed"
           /\ error' # NoError
           /\ pages' = pages]_vars

\* The one-shot executors' messages for a null result.
namesNullResult(msg) ==
    msg \in { "Null data for operation: " \o operationName,
              "GraphQL Query Error: Null data returned for operation: "
                 \o operationName }

\* C12: in the one-shot hooks a response without errors whose operation key is
\* present makes the fetch fail with an error naming the operation where the
\* value is null, and else return exactly the value under the operation key.
C12_Unwrap ==
    (hook \in QueryHooks /\ Settled /\ lastOut'.settle = "resolve"
       /\ Len(lastOut'.errors) = 0 /\ lastOut'.data.k = "object"
       /\ operationName \in DOMAIN lastOut'.data.o) =>
        IF lastOut'.data.o[operationName] = Null
        THEN /\ reqs'[fetch.req].state = "failed"
             /\ namesNullResult(error'.message)
             /\ queryData' = queryData
        ELSE /\ reqs'[fetch.req].state = "done"
             /\ error' = NoError
             /\ queryData' = lastOut'.data.o[operationName]
C12_NullResultOrPayload == [][C12_Unwrap]_vars

\* C12's cases: a one-shot query failed on a null result after an earlier answer
\* had given it its payload.
C12_Witness ==
    /\ hook \in QueryHooks /\ ~isFetching
    /\ lastOut = Resolve(<<>>, Obj(operationName :> Null))
    /\ error # NoError /\ queryData # Undefined

\* What the executor threw names the operation.
carriesOperation(msg) == namesOperation(msg) \/ namesNullResult(msg)

\* C13: every failure of a fetch reaches the consumer in one shape: an Error
\* with a message, carrying the underlying messages of the response (or of the
\* rejection) as a list, and the name of the operation.
C13_UniformError ==
    [][(Settled /\ reqs'[fetch.req].state = "failed") =>
           /\ error'.isError /\ error'.message # ""
           /\ error'.errors = lastOut'.errors
           /\ (Len(lastOut'.errors) = 0 /\ lastOut'.settle = "resolve")
                 => carriesOperation(error'.message)]_vars

\* C14: once the consumer has discarded the walk, and until a consumer mounts
\* again, no request is issued for it and the result of a fetch that was in
\* flight is not taken into the page sequence.
C14_DiscardedResult ==
    [][(Paginated /\ ~observing /\ ~observing') =>
           /\ ~Issued
           /\ pages' = pages]_vars

\* C15: two consumers of one query key share the page sequence and the request
\* in flight. With both mounted a step issues one request at most, a request is
\* issued only with none outstanding, and no request of the auto-fetch effect is
\* given up for another one for the same page. (The page sequence is the one
\* variable pages, whoever reads it.)
C15_OneRequestPerPage ==
    [][(Paginated /\ observing /\ second /\ Issued) =>
           /\ Len(reqs') = Len(reqs) + 1
           /\ \A i \in DOMAIN reqs' : i < Len(reqs') => reqs'[i].state # "pending"
           /\ \A i \in DOMAIN reqs' :
                 (reqs'[i].by = "effect" /\ reqs'[i].state = "cancelled") =>
                     (i \in DOMAIN reqs /\ reqs[i].state = "cancelled")
                     \/ newReq.by = "manual"]_vars

\* C16: a call of an executor (queryFn, fetcher, getData) is one request to the
\* transport. The step in which the request fails ends the call: no request is
\* issued in it and nothing is in flight after it; and a request that was
\* settled is never sent again.
C16_NoRetry ==
    /\ (Settled /\ reqs'[fetch.req].state = "failed") =>
           /\ ~Issued /\ ~isFetching'
           /\ error' # NoError
    /\ \A i \in DOMAIN reqs :
           reqs[i].state # "pending" => reqs'[i] = reqs[i]
C16_OneRequestPerCall == [][C16_NoRetry]_vars

\* C16's case: the one request of a one-shot query failed, and that was all.
C16_Witness ==
    /\ hook \in QueryHooks /\ Len(reqs) = 1 /\ reqs[1].state = "failed"
    /\ ~isFetching /\ error # NoError

\* A token without its __typename entry; a token that is no object is itself.
stripTypename(tok) ==
    IF tok.k = "object"
    THEN Obj([key \in DOMAIN tok.o \ {"__typename"} |-> tok.o[key]])
    ELSE tok

\* Tokens a backend may hand out.
TokenSamples ==
    { Str("t1"), Str(""),
      Obj([cursor |-> Str("abc"), __typename |-> Str("X")]),
      Obj([cursor |-> Str("abc"), scope |-> Str("s")]),
      Obj([__typename |-> Str("X")]),
      Obj(EmptyFn) }

\* C17: the token transform (there is no allow-list) returns a string token as
\* it is and an object token as an object with the same entries but __typename;
\* and that is the token a request of the second variant carries.
C17_TokenTransform ==
    /\ \A tok \in TokenSamples : tokenValue(tok) = stripTypename(tok)
    /\ hook = "second" =>
          \A i \in DOMAIN reqs :
              Truthy(tokenValue(reqs[i].pageParam)) =>
                  requestToken(hook, reqs[i].vars) = stripTypename(reqs[i].pageParam)

\* C17's case: the second variant sent a request for a page whose token came
\* as an object with __typename.
C17_Witness ==
    /\ hook = "second"
    /\ \E i \in DOMAIN reqs :
          /\ reqs[i].pageParam.k = "object"
          /\ "__typename" \in DOMAIN reqs[i].pageParam.o
          /\ reqs[i].state = "done"

\* The allow-list a caller would pass for its tokens.
allowList == {"cursor"}

\* C18: with an allow-list, the token a request carries for an object token has
\* exactly the allow-listed keys of the token the page gave, with their values.
C18_AllowListedKeys ==
    hook = "second" =>
        \A i \in DOMAIN reqs :
            reqs[i].pageParam.k = "object" =>
                requestToken(hook, reqs[i].vars) =
                    Obj([key \in DOMAIN reqs[i].pageParam.o \cap allowList |->
                            reqs[i].pageParam.o[key]])

\* C19: an object token that is empty once __typename is filtered out counts as
\* present in the second variant. The page that brings it leaves hasMore true,
\* the auto-fetch effect of a mounted consumer issues the next request, and every
\* request for such a token carries the empty object under the token field.
C19_OnArrival ==
    (hook = "second" /\ observing /\ TookLastPage /\ fetch.kind = "next"
       /\ getNextToken(pages'[Len(pages')]).k = "object"
       /\ stripTypename(getNextToken(pages'[Len(pages')])) = Obj(EmptyFn)) =>
        /\ hasMore'
        /\ Issued /\ newReq.pageNo = Len(pages') + 1
        /\ requestToken(hook, newReq.vars) = Obj(EmptyFn)
C19_InRequests ==
    hook = "second" =>
        \A i \in DOMAIN reqs :
            (reqs[i].pageParam.k = "object"
               /\ stripTypename(reqs[i].pageParam) = Obj(EmptyFn)) =>
                requestToken(hook, reqs[i].vars) = Obj(EmptyFn)
C19_EmptyTokenForwarded == [](C19_InRequests) /\ [][C19_OnArrival]_vars

\* C19's case: the request sent for a token whose only key was __typename was
\* answered with the next page.
C19_Witness ==
    /\ hook = "second" /\ Len(pages) >= 2
    /\ reqs[pageReq[2]].pageParam = Obj([__typename |-> Str("X")])
    /\ requestToken(hook, reqs[pageReq[2]].vars) = Obj(EmptyFn)
    /\ pages[2] = pageData(chain, 2, epoch)

\* C20: whenever a page's token makes hasMore true, the request for the next
\* page carries that token under the token field, the empty string too; no
\* request for a later page asks the backend for the first page again.
C20_TokenForwarded ==
    Paginated =>
        \A i \in DOMAIN reqs :
            reqs[i].pageNo > 1 =>
                /\ ~Nullish(requestToken(hook, reqs[i].vars))
                /\ pageIndex(chain, requestToken(hook, reqs[i].vars)) # 1


\* ------------------------------------------------------------------------ C21
\* The walk is stalled: a mounted consumer of a variant with the auto-fetch
\* effect has pages and a further one to fetch, nothing is in flight and no error
\* is recorded. The effect acts in the step that changes the data, so in such a
\* state no run of it is pending: the next page is fetched only if the consumer
\* asks for it (or a later refetch happens to change the data).
Stalled ==
    /\ hasEffect(hook) /\ observing
    /\ Len(pages) > 0 /\ hasMore
    /\ ~isFetching /\ error = NoError

\* C21: the auto-fetching walk never stalls while observed: no reachable state
\* has hasMore true, no fetch in flight, no error recorded and no
\* auto-continuation to come.
C21_NeverStalls == ~Stalled

=============================================================================
